---- MODULE Spec2Model ----
(***************************************************************************)
(* Exit Decision Calculator of streamlit_app.py.                           *)
(*                                                                         *)
(* The page is a Streamlit script: every change of a widget re-runs the    *)
(* script from the top, which reads the widgets (lines 55-133), computes   *)
(* the economic threshold (line 139) and walks the chain Question 0 ..     *)
(* Question 5 (lines 144-209).  The state is the value of every widget and *)
(* the outcome of the last run; one action per widget, each holding the    *)
(* whole re-run.                                                           *)
(*                                                                         *)
(* Numbers.  Percentages are kept in quarter points (Pct(8) = 32 is 8%,    *)
(* Pct(18) + 1 is 18.25%), dollar amounts in $M.  A quotient is kept as a  *)
(* pair num/den with den > 0 and compared by cross-multiplication, which   *)
(* is the value of the Python expression on the sample values below (the   *)
(* double-precision results agree with the exact ones on all of them).     *)
(***************************************************************************)
EXTENDS Integers, Sequences, FiniteSets

VARIABLES
    debt_maturity,            \* line 55   checkbox
    forward_irr,              \* line 64   number_input, quarter points
    current_equity,           \* line 67   number_input, $M
    unreturned_capital,       \* line 75   number_input, $M
    fund_type,                \* line 87   radio
    fund_stage,               \* line 93   selectbox
    pref_rate,                \* line 98   number_input, quarter points
    has_alternatives,         \* line 103  checkbox
    alternative_irr,          \* line 105 / 107
    raising_soon,             \* line 113 / 120 / 124
    current_fund_irr,         \* line 115, unbound otherwise
    target_quartile_cutoff,   \* line 116, unbound otherwise
    fund_nav,                 \* line 117 / 122 / 126
    would_drag_irr,           \* line 118 / 121 / 125
    peak_market,              \* line 131  checkbox
    downside_risk,            \* line 133, unbound otherwise
    economic_threshold,       \* line 139
    decision,                 \* line 144 ..
    decision_driver,          \* line 145 ..
    decision_question,        \* line 146 ..
    report,                   \* lines 230-332: what each expander shows
    expanded                  \* lines 231-328: expanded= of each expander

vars == <<debt_maturity, forward_irr, current_equity, unreturned_capital,
          fund_type, fund_stage, pref_rate, has_alternatives, alternative_irr,
          raising_soon, current_fund_irr, target_quartile_cutoff, fund_nav,
          would_drag_irr, peak_market, downside_risk,
          economic_threshold, decision, decision_driver, decision_question,
          report, expanded>>

-----------------------------------------------------------------------------
(* Units and values that are not numbers *)

\* x percent, in quarter points
Pct(x) == 4 * x

\* a name the run has not bound (current_fund_irr, target_quartile_cutoff,
\* downside_risk when their widget is not drawn)
Unset == 0 - 1

\* Python's None as the value of decision_question
NoneQ == 0 - 1

Abs(x) == IF x < 0 THEN 0 - x ELSE x

Min(a, b) == IF a < b THEN a ELSE b

\* the first n entries of a sequence of sample values
Samples(seq, n) == {seq[k] : k \in 1..Min(n, Len(seq))}

-----------------------------------------------------------------------------
(* Bounds: how many sample values each numeric widget may take.  The first  *)
(* sample of each widget is its default value.                              *)

NForwardIrr == 2
NEquity == 1
NUnreturned == 3
NPrefRate == 2
NAlternativeIrr == 1
NFundIrr == 2
NQuartile == 1
NFundNav == 2
NDownside == 1

ForwardIrrVals == Samples(<<Pct(11), Pct(4), Pct(10), Pct(0)>>, NForwardIrr)
EquityVals == Samples(<<40, 20, 100>>, NEquity)
UnreturnedVals == Samples(<<40, 20, 100, 80>>, NUnreturned)
PrefRateVals == Samples(<<Pct(8), Pct(0), Pct(15)>>, NPrefRate)
AlternativeIrrVals == Samples(<<Pct(15), Pct(14), Pct(30)>>, NAlternativeIrr)
FundIrrVals == Samples(<<Pct(19), Pct(18) + 1, Pct(18) - 1>>, NFundIrr)
QuartileVals == Samples(<<Pct(18), Pct(18) + 2>>, NQuartile)
FundNavVals == Samples(<<400, 200, 1000>>, NFundNav)
DownsideVals == Samples(<<Pct(20), Pct(25), Pct(50)>>, NDownside)

FundTypes == {"Commingled Fund", "Separate Account"}
FundStages == {"Early (Years 1-4)", "Mid (Years 5-7)", "Late (Years 8-10)"}

-----------------------------------------------------------------------------
(* The values the script holds after reading the widgets, as one record *)

In ==
    [debt_maturity |-> debt_maturity,
     forward_irr |-> forward_irr,
     current_equity |-> current_equity,
     unreturned_capital |-> unreturned_capital,
     fund_type |-> fund_type,
     fund_stage |-> fund_stage,
     pref_rate |-> pref_rate,
     has_alternatives |-> has_alternatives,
     alternative_irr |-> alternative_irr,
     raising_soon |-> raising_soon,
     current_fund_irr |-> current_fund_irr,
     target_quartile_cutoff |-> target_quartile_cutoff,
     fund_nav |-> fund_nav,
     would_drag_irr |-> would_drag_irr,
     peak_market |-> peak_market,
     downside_risk |-> downside_risk]

\* a fresh session: every widget at its value= default
Defaults ==
    [debt_maturity |-> FALSE,
     forward_irr |-> Pct(11),
     current_equity |-> 40,
     unreturned_capital |-> 40,
     fund_type |-> "Commingled Fund",
     fund_stage |-> "Early (Years 1-4)",
     pref_rate |-> Pct(8),
     has_alternatives |-> FALSE,
     alternative_irr |-> 0,
     raising_soon |-> FALSE,
     current_fund_irr |-> Unset,
     target_quartile_cutoff |-> Unset,
     fund_nav |-> 0,
     would_drag_irr |-> FALSE,
     peak_market |-> FALSE,
     downside_risk |-> Unset]

-----------------------------------------------------------------------------
(* Conditional widgets, lines 102-133 *)

\* lines 104-107: the alternative IRR widget is drawn only when the box is
\* ticked (a widget drawn anew holds its default, 15.0); 0.0 otherwise
AlternativesBlock(i, ticked) ==
    IF ticked
    THEN [i EXCEPT !.has_alternatives = TRUE,
                   !.alternative_irr = IF i.has_alternatives THEN @ ELSE Pct(15)]
    ELSE [i EXCEPT !.has_alternatives = FALSE, !.alternative_irr = 0]

\* lines 119-126: no fundraise, or not a commingled fund
NoFundraise(i) ==
    [i EXCEPT !.raising_soon = FALSE,
              !.would_drag_irr = FALSE,
              !.fund_nav = 0,
              !.current_fund_irr = Unset,
              !.target_quartile_cutoff = Unset]

\* lines 112-126: the fundraising widgets are drawn only for a commingled
\* fund that is raising (drawn anew they hold 19.0, 18.0, 400.0, unticked)
FundraisingBlock(i, ticked) ==
    IF i.fund_type = "Commingled Fund"
    THEN IF ticked
         THEN IF i.raising_soon
              THEN i
              ELSE [i EXCEPT !.raising_soon = TRUE,
                             !.current_fund_irr = Pct(19),
                             !.target_quartile_cutoff = Pct(18),
                             !.fund_nav = 400,
                             !.would_drag_irr = FALSE]
         ELSE NoFundraise(i)
    ELSE NoFundraise(i)

\* lines 131-133: the slider is drawn only at a market peak (default 20)
PeakBlock(i, ticked) ==
    IF ticked
    THEN [i EXCEPT !.peak_market = TRUE,
                   !.downside_risk = IF i.peak_market THEN @ ELSE Pct(20)]
    ELSE [i EXCEPT !.peak_market = FALSE, !.downside_risk = Unset]

-----------------------------------------------------------------------------
(* The decision pre-calculation, lines 139-209 *)

\* the capital ratio upside down
EconomicThreshold_Inverted(i) ==
    [num |-> i.pref_rate * i.current_equity, den |-> i.unreturned_capital]

\* line 139: pref_rate * (unreturned_capital / current_equity), as num/den
EconomicThreshold(i) ==
    [num |-> i.pref_rate * i.unreturned_capital, den |-> i.current_equity]

\* the comparison of Question 1 the wrong way round
LessThanQ_Reversed(x, q) == x * q.den > q.num

\* x < q for a quotient q
LessThanQ(x, q) == x * q.den < q.num

\* q > x for a quotient q
QGreater(q, x) == q.num > x * q.den

\* lines 144-146
Undecided == [decision |-> "None", decision_driver |-> "None", decision_question |-> NoneQ]

\* a read of an unbound name ends the run with a NameError
Crashed == [decision |-> "NameError", decision_driver |-> "None", decision_question |-> NoneQ]

Fire(d, driver, q) == [decision |-> d, decision_driver |-> driver, decision_question |-> q]

\* lines 148-152
Question0(i, r) ==
    IF i.debt_maturity
    THEN Fire("EXIT", "Debt Maturity (Structural Constraint)", 0)
    ELSE r

\* Question 1 without its `if decision is None`
Question1_Unguarded(i, r) ==
    IF LessThanQ(i.forward_irr, EconomicThreshold(i))
    THEN Fire("EXIT", "Below Economic Threshold", 1)
    ELSE r

\* lines 154-159
Question1(i, r) ==
    IF r.decision = "None"
    THEN IF LessThanQ(i.forward_irr, EconomicThreshold(i))
         THEN Fire("EXIT", "Below Economic Threshold", 1)
         ELSE r
    ELSE r

\* line 165
AssetPctOfNav(i) ==
    IF i.fund_nav > 0
    THEN [num |-> i.current_equity * 100, den |-> i.fund_nav]
    ELSE [num |-> 0, den |-> 1]

\* line 167: abs(current_fund_irr - target_quartile_cutoff) * 100, the
\* difference being in quarter points
IrrDragBps(i) == (Abs(i.current_fund_irr - i.target_quartile_cutoff) * 100) \div 4

\* the materiality gate with >= 10 for > 10
IsMaterial_Inclusive(i) ==
    AssetPctOfNav(i).num >= 10 * AssetPctOfNav(i).den \/ IrrDragBps(i) > 25

\* line 169
IsMaterial(i) == QGreater(AssetPctOfNav(i), 10) \/ IrrDragBps(i) > 25

\* Question 2 without its `if decision is None`
Question2_Unguarded(i, r) ==
    IF i.fund_type = "Commingled Fund" /\ i.raising_soon /\ i.would_drag_irr
    THEN IF i.current_fund_irr = Unset \/ i.target_quartile_cutoff = Unset
         THEN Crashed
         ELSE IF IsMaterial(i)
              THEN Fire("EXIT", "IRR Preservation (Material Impact)", 2)
              ELSE r
    ELSE r

\* lines 161-174
Question2(i, r) ==
    IF r.decision = "None"
    THEN IF i.fund_type = "Commingled Fund" /\ i.raising_soon /\ i.would_drag_irr
         THEN IF i.current_fund_irr = Unset \/ i.target_quartile_cutoff = Unset
              THEN Crashed
              ELSE IF IsMaterial(i)
                   THEN Fire("EXIT", "IRR Preservation (Material Impact)", 2)
                   ELSE r
         ELSE r
    ELSE r

\* one year of gains for two
TwoYearGains_OneYear(i) == i.forward_irr

\* line 181
TwoYearGains(i) == i.forward_irr * 2

\* lines 176-185
Question3(i, r) ==
    IF r.decision = "None"
    THEN IF i.peak_market
         THEN IF i.downside_risk = Unset
              THEN Crashed
              ELSE IF i.downside_risk > TwoYearGains(i)
                   THEN Fire("EXIT", "Market Timing", 3)
                   ELSE r
         ELSE r
    ELSE r

\* line 190
Spread(i) == i.alternative_irr - i.forward_irr

\* the 5% and 3% thresholds on the wrong stages
Question4_StagesSwapped(i, r) ==
    IF r.decision = "None"
    THEN IF i.has_alternatives
         THEN IF i.fund_stage = "Early (Years 1-4)"
              THEN IF Spread(i) > Pct(3)
                   THEN Fire("EXIT", "Opportunity Cost", 4)
                   ELSE r
              ELSE IF i.fund_stage \in {"Mid (Years 5-7)", "Late (Years 8-10)"}
                   THEN IF Spread(i) > Pct(5)
                        THEN Fire("EXIT", "Opportunity Cost", 4)
                        ELSE r
                   ELSE r
         ELSE r
    ELSE r

\* Question 4 without its `if has_alternatives`
Question4_Unconditional(i, r) ==
    IF r.decision = "None"
    THEN IF i.fund_stage = "Early (Years 1-4)"
         THEN IF Spread(i) > Pct(5)
              THEN Fire("EXIT", "Opportunity Cost", 4)
              ELSE r
         ELSE IF i.fund_stage \in {"Mid (Years 5-7)", "Late (Years 8-10)"}
              THEN IF Spread(i) > Pct(3)
                   THEN Fire("EXIT", "Opportunity Cost", 4)
                   ELSE r
              ELSE r
    ELSE r

\* lines 187-203
Question4(i, r) ==
    IF r.decision = "None"
    THEN IF i.has_alternatives
         THEN IF i.fund_stage = "Early (Years 1-4)"
              THEN IF Spread(i) > Pct(5)
                   THEN Fire("EXIT", "Opportunity Cost", 4)
                   ELSE r
              ELSE IF i.fund_stage \in {"Mid (Years 5-7)", "Late (Years 8-10)"}
                   THEN IF Spread(i) > Pct(3)
                        THEN Fire("EXIT", "Opportunity Cost", 4)
                        ELSE r
                   ELSE r
         ELSE r
    ELSE r

\* the chain without its default
Question5_Omitted(i, r) == r

\* lines 205-209
Question5(i, r) ==
    IF r.decision = "None"
    THEN Fire("HOLD", "Asset fundamentals solid", 5)
    ELSE r

\* lines 144-209, in the order of the script
Decide(i) ==
    Question5(i, Question4(i, Question3(i, Question2(i, Question1(i, Question0(i, Undecided))))))

-----------------------------------------------------------------------------
(* The detailed questions, lines 226-332.  What an expander shows is kept   *)
(* as the Streamlit call that draws its verdict: "error" (a red EXIT line), *)
(* "success" (a green pass or HOLD line), "warning" (the immaterial drag),  *)
(* "info" (the N/A line), "nothing" when no branch draws, and "NameError"   *)
(* when the branch reads an unbound name.                                   *)

\* lines 230-236
Expander0(i) ==
    IF i.debt_maturity THEN "error" ELSE "success"

\* lines 238-257
Expander1(i) ==
    IF LessThanQ(i.forward_irr, EconomicThreshold(i)) THEN "error" ELSE "success"

\* lines 259-282
Expander2(i) ==
    IF i.fund_type = "Separate Account"
    THEN "info"
    ELSE IF ~i.raising_soon
         THEN "info"
         ELSE IF i.current_fund_irr = Unset \/ i.target_quartile_cutoff = Unset
              THEN "NameError"
              ELSE IF i.would_drag_irr
                   THEN IF IsMaterial(i) THEN "error" ELSE "warning"
                   ELSE "success"

\* lines 284-297
Expander3(i) ==
    IF ~i.peak_market
    THEN "info"
    ELSE IF i.downside_risk = Unset
         THEN "NameError"
         ELSE IF i.downside_risk > TwoYearGains(i) THEN "error" ELSE "success"

\* lines 299-325
Expander4(i) ==
    IF ~i.has_alternatives
    THEN "info"
    ELSE IF i.fund_stage = "Early (Years 1-4)"
         THEN IF Spread(i) > Pct(5) THEN "error" ELSE "success"
         ELSE IF i.fund_stage \in {"Mid (Years 5-7)", "Late (Years 8-10)"}
              THEN IF Spread(i) > Pct(3) THEN "error" ELSE "success"
              ELSE "nothing"

\* lines 327-332: the only expander that looks at the decision
Expander5(i, r) ==
    IF r.decision = "HOLD" THEN "success" ELSE "info"

\* lines 230-332: every expander is drawn on every run, in order
Expanders(i, r) ==
    [k \in 0..5 |->
        CASE k = 0 -> Expander0(i)
          [] k = 1 -> Expander1(i)
          [] k = 2 -> Expander2(i)
          [] k = 3 -> Expander3(i)
          [] k = 4 -> Expander4(i)
          [] OTHER -> Expander5(i, r)]

\* the expanded= argument of the six expanders (lines 231, 239, 260, 285,
\* 300, 328): the firing question is open, and Question 1 also on a HOLD
Expanded(r) ==
    [k \in 0..5 |->
        \/ r.decision_question = k
        \/ k = 1 /\ r.decision_question = 5]

-----------------------------------------------------------------------------
(* One run of the script on the widget values i *)

Rerun(i) ==
    /\ debt_maturity' = i.debt_maturity
    /\ forward_irr' = i.forward_irr
    /\ current_equity' = i.current_equity
    /\ unreturned_capital' = i.unreturned_capital
    /\ fund_type' = i.fund_type
    /\ fund_stage' = i.fund_stage
    /\ pref_rate' = i.pref_rate
    /\ has_alternatives' = i.has_alternatives
    /\ alternative_irr' = i.alternative_irr
    /\ raising_soon' = i.raising_soon
    /\ current_fund_irr' = i.current_fund_irr
    /\ target_quartile_cutoff' = i.target_quartile_cutoff
    /\ fund_nav' = i.fund_nav
    /\ would_drag_irr' = i.would_drag_irr
    /\ peak_market' = i.peak_market
    /\ downside_risk' = i.downside_risk
    /\ economic_threshold' = EconomicThreshold(i)
    /\ LET r == Decide(i)
       IN  /\ decision' = r.decision
           /\ decision_driver' = r.decision_driver
           /\ decision_question' = r.decision_question
           /\ report' = Expanders(i, r)
           /\ expanded' = Expanded(r)

Init ==
    /\ debt_maturity = Defaults.debt_maturity
    /\ forward_irr = Defaults.forward_irr
    /\ current_equity = Defaults.current_equity
    /\ unreturned_capital = Defaults.unreturned_capital
    /\ fund_type = Defaults.fund_type
    /\ fund_stage = Defaults.fund_stage
    /\ pref_rate = Defaults.pref_rate
    /\ has_alternatives = Defaults.has_alternatives
    /\ alternative_irr = Defaults.alternative_irr
    /\ raising_soon = Defaults.raising_soon
    /\ current_fund_irr = Defaults.current_fund_irr
    /\ target_quartile_cutoff = Defaults.target_quartile_cutoff
    /\ fund_nav = Defaults.fund_nav
    /\ would_drag_irr = Defaults.would_drag_irr
    /\ peak_market = Defaults.peak_market
    /\ downside_risk = Defaults.downside_risk
    /\ economic_threshold = EconomicThreshold(Defaults)
    /\ decision = Decide(Defaults).decision
    /\ decision_driver = Decide(Defaults).decision_driver
    /\ decision_question = Decide(Defaults).decision_question
    /\ report = Expanders(Defaults, Decide(Defaults))
    /\ expanded = Expanded(Decide(Defaults))

-----------------------------------------------------------------------------
(* The widgets *)

\* line 55
SetDebtMaturity ==
    \E b \in BOOLEAN : Rerun([In EXCEPT !.debt_maturity = b])

\* line 64
SetForwardIrr ==
    \E v \in ForwardIrrVals : Rerun([In EXCEPT !.forward_irr = v])

\* line 67
SetCurrentEquity ==
    \E v \in EquityVals : Rerun([In EXCEPT !.current_equity = v])

\* line 75
SetUnreturnedCapital ==
    \E v \in UnreturnedVals : Rerun([In EXCEPT !.unreturned_capital = v])

\* line 87, and the fundraising block that depends on it
SetFundType ==
    \E t \in FundTypes :
        Rerun(FundraisingBlock([In EXCEPT !.fund_type = t],
                               IF fund_type = "Commingled Fund" THEN raising_soon ELSE FALSE))

\* line 93
SetFundStage ==
    \E s \in FundStages : Rerun([In EXCEPT !.fund_stage = s])

\* line 98
SetPrefRate ==
    \E v \in PrefRateVals : Rerun([In EXCEPT !.pref_rate = v])

\* line 103
SetHasAlternatives ==
    \E b \in BOOLEAN : Rerun(AlternativesBlock(In, b))

\* line 105
SetAlternativeIrr ==
    /\ has_alternatives
    /\ \E v \in AlternativeIrrVals : Rerun([In EXCEPT !.alternative_irr = v])

\* line 113
SetRaisingSoon ==
    /\ fund_type = "Commingled Fund"
    /\ \E b \in BOOLEAN : Rerun(FundraisingBlock(In, b))

\* line 115
SetCurrentFundIrr ==
    /\ fund_type = "Commingled Fund" /\ raising_soon
    /\ \E v \in FundIrrVals : Rerun([In EXCEPT !.current_fund_irr = v])

\* line 116
SetTargetQuartileCutoff ==
    /\ fund_type = "Commingled Fund" /\ raising_soon
    /\ \E v \in QuartileVals : Rerun([In EXCEPT !.target_quartile_cutoff = v])

\* line 117
SetFundNav ==
    /\ fund_type = "Commingled Fund" /\ raising_soon
    /\ \E v \in FundNavVals : Rerun([In EXCEPT !.fund_nav = v])

\* line 118
SetWouldDragIrr ==
    /\ fund_type = "Commingled Fund" /\ raising_soon
    /\ \E b \in BOOLEAN : Rerun([In EXCEPT !.would_drag_irr = b])

\* line 131
SetPeakMarket ==
    \E b \in BOOLEAN : Rerun(PeakBlock(In, b))

\* line 133
SetDownsideRisk ==
    /\ peak_market
    /\ \E v \in DownsideVals : Rerun([In EXCEPT !.downside_risk = v])

Next ==
    \/ SetDebtMaturity
    \/ SetForwardIrr
    \/ SetCurrentEquity
    \/ SetUnreturnedCapital
    \/ SetFundType
    \/ SetFundStage
    \/ SetPrefRate
    \/ SetHasAlternatives
    \/ SetAlternativeIrr
    \/ SetRaisingSoon
    \/ SetCurrentFundIrr
    \/ SetTargetQuartileCutoff
    \/ SetFundNav
    \/ SetWouldDragIrr
    \/ SetPeakMarket
    \/ SetDownsideRisk

Spec == Init /\ [][Next]_vars

-----------------------------------------------------------------------------
(* The rules as the specification states them, on the current widget values *)

\* Rule 0: debtMaturingSoon
Rule0Holds == debt_maturity

\* Rule 1: forwardIrrPct < prefRatePct * (unreturnedCapital / currentEquity),
\* both sides multiplied by currentEquity > 0
Rule1Holds == forward_irr * current_equity < pref_rate * unreturned_capital

\* Rule 2 is applicable: a commingled fund, raising, and the asset would drag
Rule2Applicable == fund_type = "Commingled Fund" /\ raising_soon /\ would_drag_irr

\* currentEquity / fundNav * 100 > 10 or |currentFundIrr - target| * 100 > 25
\* (a quarter point is 25 bps)
Rule2Material ==
    \/ current_equity * 100 > 10 * fund_nav
    \/ Abs(current_fund_irr - target_quartile_cutoff) * 25 > 25

Rule2Holds == Rule2Applicable /\ Rule2Material

\* Rule 3: peakMarket and downsideRiskPct > 2 * forwardIrrPct
Rule3Holds == peak_market /\ downside_risk > 2 * forward_irr

\* Rule 4: hasAlternatives and the spread above 5 (Early) or 3 (Mid, Late)
Rule4Holds ==
    /\ has_alternatives
    /\ alternative_irr - forward_irr >
           (IF fund_stage = "Early (Years 1-4)" THEN Pct(5) ELSE Pct(3))

RuleHolds(j) ==
    CASE j = 0 -> Rule0Holds
      [] j = 1 -> Rule1Holds
      [] j = 2 -> Rule2Holds
      [] j = 3 -> Rule3Holds
      [] j = 4 -> Rule4Holds
      [] OTHER -> TRUE

-----------------------------------------------------------------------------
(* C1 *)

\* C1 Totality: after every run the decision is HOLD or EXIT and the firing
\* rule is one index in 0..5 (HOLD exactly for rule 5); no input that the
\* widgets admit leaves the decision undefined.
C1_Totality ==
    /\ decision \in {"HOLD", "EXIT"}
    /\ decision_question \in 0..5
    /\ decision = "HOLD" <=> decision_question = 5

\* every conditional rule is applicable, none fires, the default decides
C1_Witness ==
    /\ Rule2Applicable /\ peak_market /\ has_alternatives
    /\ decision = "HOLD" /\ decision_question = 5

(* C2 *)

\* C2 Dominance: if Rule k is the firing rule, the condition of every rule
\* j < k is false (or the rule is not applicable) on the same input.
C2_Dominance ==
    \A j \in 0..4 : j < decision_question => ~RuleHolds(j)

\* rule 1 fires although the conditions of rules 2, 3 and 4 hold as well
C2_Witness ==
    /\ decision_question = 1
    /\ Rule2Holds /\ Rule3Holds /\ Rule4Holds

(* C3 *)

\* C3 Rule 0 dominates: whenever debtMaturingSoon is true the result is
\* EXIT with firing rule 0, whatever the other inputs are.
C3_DebtMaturityExits ==
    debt_maturity => decision = "EXIT" /\ decision_question = 0

\* debt maturing while the conditions of rules 1 and 2 hold as well
C3_Witness ==
    /\ debt_maturity /\ decision = "EXIT" /\ decision_question = 0
    /\ Rule1Holds /\ Rule2Holds

(* C4 *)

\* a re-run in which the forward IRR alone has changed
OnlyForwardIrrChanges ==
    /\ forward_irr' # forward_irr
    /\ UNCHANGED <<debt_maturity, current_equity, unreturned_capital, fund_type,
                   fund_stage, pref_rate, has_alternatives, alternative_irr,
                   raising_soon, current_fund_irr, target_quartile_cutoff,
                   fund_nav, would_drag_irr, peak_market, downside_risk>>

\* an increase of the forward IRR never turns an outcome that was not a
\* Rule-1 EXIT into a Rule-1 EXIT
C4_RaisingNeverFiresRule1 ==
    (OnlyForwardIrrChanges /\ forward_irr' > forward_irr /\ decision_question # 1)
        => decision_question' # 1

\* C4 as stated: holding every other input fixed, lowering forwardIrrPct to
\* a value below economicThreshold changes an outcome that was HOLD or a
\* non-Rule-1 EXIT into EXIT with firingRule = 1; and raising it never
\* changes an outcome that was not a Rule-1 EXIT into a Rule-1 EXIT.
C4_Original ==
    [][/\ (/\ OnlyForwardIrrChanges
           /\ forward_irr' < forward_irr
           /\ forward_irr' * current_equity < pref_rate * unreturned_capital
           /\ decision_question # 1)
          => (decision' = "EXIT" /\ decision_question' = 1)
       /\ C4_RaisingNeverFiresRule1]_vars

\* C4 amended: with debtMaturingSoon false, lowering forwardIrrPct to a
\* value below economicThreshold changes an outcome that was HOLD or a
\* non-Rule-1 EXIT into EXIT with firingRule = 1 (with debtMaturingSoon true
\* the outcome stays the Rule-0 EXIT); and raising forwardIrrPct never
\* changes an outcome that was not a Rule-1 EXIT into a Rule-1 EXIT.
C4_Rule1Monotone ==
    [][/\ (/\ OnlyForwardIrrChanges
           /\ forward_irr' < forward_irr
           /\ forward_irr' * current_equity < pref_rate * unreturned_capital
           /\ decision_question # 1)
          => IF debt_maturity
             THEN decision' = "EXIT" /\ decision_question' = 0
             ELSE decision' = "EXIT" /\ decision_question' = 1
       /\ C4_RaisingNeverFiresRule1]_vars

\* a Rule-1 EXIT reached from a HOLD: the forward IRR now lies below a
\* threshold that a higher forward IRR on the sample grid clears, with no
\* other rule in the way
C4_Witness ==
    /\ ~debt_maturity /\ decision = "EXIT" /\ decision_question = 1
    /\ ~Rule2Holds /\ ~peak_market /\ ~has_alternatives
    /\ \E f \in ForwardIrrVals :
           /\ f > forward_irr
           /\ ~(f * current_equity < pref_rate * unreturned_capital)

(* C5 *)

\* C5 as stated: economicThreshold equals prefRatePct if and only if
\* unreturnedCapital equals currentEquity; it is below prefRatePct when
\* unreturnedCapital < currentEquity and above it when unreturnedCapital >
\* currentEquity.
C5_Original ==
    /\ economic_threshold.num = pref_rate * economic_threshold.den
           <=> unreturned_capital = current_equity
    /\ unreturned_capital < current_equity
           => economic_threshold.num < pref_rate * economic_threshold.den
    /\ unreturned_capital > current_equity
           => economic_threshold.num > pref_rate * economic_threshold.den

\* C5 amended: when unreturnedCapital equals currentEquity the threshold
\* equals prefRatePct; for prefRatePct > 0 it equals prefRatePct only then,
\* is below prefRatePct when unreturnedCapital < currentEquity and above it
\* when unreturnedCapital > currentEquity; for prefRatePct = 0 the threshold
\* is 0 = prefRatePct whatever the two capital figures are.
C5_ThresholdAlgebra ==
    /\ economic_threshold.den > 0
    /\ unreturned_capital = current_equity
           => economic_threshold.num = pref_rate * economic_threshold.den
    /\ pref_rate > 0 => C5_Original
    /\ pref_rate = 0 => economic_threshold.num = 0

\* a distributed asset under a positive pref rate: the threshold is below it
C5_Witness ==
    /\ pref_rate > 0 /\ unreturned_capital < current_equity
    /\ economic_threshold.num < pref_rate * economic_threshold.den

(* C6 *)

\* C6 Materiality gate: an EXIT with firingRule = 2 occurs only when the
\* fund is commingled, raising, the asset would drag the fund IRR, and the
\* drag is material (more than 10% of NAV or more than 25 bps); when rules
\* 0 and 1 do not fire it occurs exactly then; with wouldDragIrr false no
\* input exits via Rule 2; and an immaterial drag lets evaluation proceed to
\* Rule 3, which fires if its own condition holds.
C6_MaterialityGate ==
    /\ decision_question = 2 => decision = "EXIT" /\ Rule2Applicable /\ Rule2Material
    /\ (~Rule0Holds /\ ~Rule1Holds /\ Rule2Holds) => decision_question = 2
    /\ ~would_drag_irr => decision_question # 2
    /\ (~Rule0Holds /\ ~Rule1Holds /\ Rule2Applicable /\ ~Rule2Material)
           => /\ decision_question >= 3
              /\ Rule3Holds => decision_question = 3

\* an EXIT via Rule 2 on a drag of more than 25 bps by an asset that is no
\* more than 10% of NAV
C6_Witness ==
    /\ decision = "EXIT" /\ decision_question = 2
    /\ Rule2Applicable
    /\ current_equity * 100 <= 10 * fund_nav
    /\ Abs(current_fund_irr - target_quartile_cutoff) * 25 > 25

(* C7 *)

\* C7 Stage-dependent opportunity threshold: when rules 0-3 do not fire and
\* hasAlternatives is true, Rule 4 fires EXIT exactly when the spread
\* alternativeIrrPct - forwardIrrPct exceeds 5 for Early and 3 for Mid and
\* Late, and the outcome is HOLD by rule 5 otherwise; a spread of 4 gives
\* HOLD for Early and EXIT by rule 4 for Mid and for Late.
C7_StageThreshold ==
    (~Rule0Holds /\ ~Rule1Holds /\ ~Rule2Holds /\ ~Rule3Holds /\ has_alternatives)
        => /\ (decision = "EXIT" /\ decision_question = 4)
                  <=> alternative_irr - forward_irr >
                          (IF fund_stage = "Early (Years 1-4)" THEN Pct(5) ELSE Pct(3))
           /\ decision_question # 4 => decision = "HOLD" /\ decision_question = 5
           /\ alternative_irr - forward_irr = Pct(4)
                  => IF fund_stage = "Early (Years 1-4)"
                     THEN decision = "HOLD" /\ decision_question = 5
                     ELSE decision = "EXIT" /\ decision_question = 4

\* a spread of 4 in a late-stage fund exits by rule 4
C7_Witness ==
    /\ has_alternatives /\ alternative_irr - forward_irr = Pct(4)
    /\ fund_stage = "Late (Years 8-10)"
    /\ decision = "EXIT" /\ decision_question = 4

(* C8 *)

\* C8 Market timing: when rules 0-2 do not fire, Rule 3 fires EXIT exactly
\* when peakMarket is true and downsideRiskPct > 2 * forwardIrrPct; when
\* peakMarket is false Rule 3 never fires; and when downsideRiskPct <=
\* 2 * forwardIrrPct evaluation proceeds to Rule 4, which fires if its own
\* condition holds.
C8_MarketTiming ==
    /\ (~Rule0Holds /\ ~Rule1Holds /\ ~Rule2Holds)
           => /\ (decision = "EXIT" /\ decision_question = 3)
                     <=> (peak_market /\ downside_risk > 2 * forward_irr)
              /\ (peak_market /\ downside_risk <= 2 * forward_irr)
                     => /\ decision_question >= 4
                        /\ Rule4Holds => decision_question = 4
    /\ ~peak_market => decision_question # 3

\* at a market peak the downside exceeds two years of forward return
C8_Witness ==
    /\ peak_market /\ downside_risk > 2 * forward_irr
    /\ decision = "EXIT" /\ decision_question = 3

(* C10 *)

\* the chain on the input i gives the decision and firing rule of this run
SameOutcome(i) ==
    /\ Decide(i).decision = decision
    /\ Decide(i).decision_question = decision_question

\* C10 Guarded conditional fields: the decision and the firing rule do not
\* depend on alternativeIrrPct while hasAlternatives is false, on
\* downsideRiskPct while peakMarket is false, or on currentFundIrrPct,
\* targetQuartileCutoffPct, fundNav and wouldDragIrr while raisingSoon is
\* false (as it is for a separate account); and no run reads a conditional
\* field that is unset.
C10_GuardedFields ==
    /\ ~has_alternatives
           => \A a \in AlternativeIrrVals \cup {0} :
                  SameOutcome([In EXCEPT !.alternative_irr = a])
    /\ ~peak_market
           => \A d \in DownsideVals \cup {Unset} :
                  SameOutcome([In EXCEPT !.downside_risk = d])
    /\ ~raising_soon
           => \A c \in FundIrrVals \cup {Unset}, t \in QuartileVals \cup {Unset},
                 n \in FundNavVals \cup {0}, w \in BOOLEAN :
                  SameOutcome([In EXCEPT !.current_fund_irr = c,
                                         !.target_quartile_cutoff = t,
                                         !.fund_nav = n,
                                         !.would_drag_irr = w])
    /\ fund_type = "Separate Account" => ~raising_soon
    /\ decision # "NameError"

\* every guard is false, the chain ran to its default, and values of the
\* guarded fields exist that would fire rules 3 and 4 were they read
C10_Witness ==
    /\ ~has_alternatives /\ ~peak_market /\ ~raising_soon
    /\ decision = "HOLD" /\ decision_question = 5
    /\ \E a \in AlternativeIrrVals : a - forward_irr > Pct(5)
    /\ \E d \in DownsideVals : d > 2 * forward_irr

(* The fallback of line 165 *)

\* whenever Question 2 computes the asset's share of NAV, the NAV is the
\* value of its widget, which is at least 1.0: the `else 0` of line 165 is
\* never taken
NavFallbackNeverTaken == Rule2Applicable => fund_nav > 0

(* C11 *)

\* an expander reports a verdict on its rule: EXIT, pass, or pass with the
\* immateriality caveat
ReportsVerdict(k) == report[k] \in {"error", "success", "warning"}

\* C11 No evaluation past the firing rule: every rule from 0 up to and
\* including the firing rule carries its outcome in the per-rule trace, and
\* every rule after the firing rule is omitted or marked unevaluated, never
\* reported as Fail/EXIT or Pass.
C11_NoReportPastFiringRule ==
    \A k \in 0..5 :
        /\ k <= decision_question => report[k] \in {"error", "success", "warning", "info"}
        /\ k > decision_question => ~ReportsVerdict(k)

\* the part of C11 that the page does satisfy: every rule up to the firing
\* one carries an outcome, the firing rule an EXIT (or the HOLD of rule 5),
\* the firing expander is open, and no expander reads an unbound name
TraceCoversFiringPrefix ==
    /\ \A k \in 0..5 : report[k] \in {"error", "success", "warning", "info"}
    /\ decision_question \in 0..4 => report[decision_question] = "error"
    /\ decision_question = 5 => report[5] = "success"
    /\ \A k \in 0..4 : k < decision_question => report[k] # "error"
    /\ expanded[decision_question]

====
